---- MODULE Spec2Model ----
(***************************************************************************)
(* A model of the IP-to-location resolver of common-lib                    *)
(* (src/geolocation.rs): GeolocationService with its TTL/capacity bounded  *)
(* cache behind a tokio RwLock, the MaxMind primary provider and the       *)
(* ip-api.com fallback provider.                                           *)
(*                                                                         *)
(* Strings that the code inspects character by character (the ip address)  *)
(* are sequences of one-character strings; strings the code only compares  *)
(* or copies are TLA+ strings.  Option<T> is a sequence of length <= 1.    *)
(* Time is a discrete monotonic clock (Instant) in units of one second.    *)
(***************************************************************************)
EXTENDS Integers, Sequences, FiniteSets, TLC

VARIABLES
    config,     \* GeolocationConfig: api_key, cache_ttl_seconds, max_cache_entries
    cache,      \* HashMap<String, CacheEntry>: ip -> [location, timestamp]
    now,        \* the monotonic clock read by Instant::now()
    writer,     \* the task holding the RwLock write guard, or NoTask
    readers,    \* the tasks holding an RwLock read guard
    pc,         \* per task: its position inside get_location
    ip,         \* per task: the ip_address argument
    location,   \* per task: the location produced by fetch_from_api (Option)
    result,     \* per task: the Result returned by get_location
    primary,    \* per task: what happened to the MaxMind request of this call
    fallback,   \* per task: what happened to the ip-api.com request of this call
    started,    \* number of get_location calls made so far
    callers,    \* the tasks that call into the resolver
    seq,        \* history: the last two back-to-back calls made on the resolver
    op,         \* per task: the public operation it is inside
    trace,      \* history, per task: the steps its current call has taken
    util        \* the free functions: the function applied, its input, its output

vars == <<config, cache, now, writer, readers, pc, ip, location, result,
          primary, fallback, started, callers, seq, op, trace, util>>

---------------------------------------------------------------------------
(* Bounds of the model *)

MaxTime == 1
MaxTtl == 1
MaxCap == 2
MaxCalls == 2

Tasks == {"t1", "t2"}
NoTask == "none"

---------------------------------------------------------------------------
(* Option<T> *)

None == <<>>
Some(x) == <<x>>
IsSome(o) == o # <<>>
Unwrap(o) == o[1]

---------------------------------------------------------------------------
(* ip addresses *)

IpGoogle == <<"8", ".", "8", ".", "8", ".", "8">>
IpB == <<"1", ".", "1", ".", "1", ".", "1">>
IpC == <<"9", ".", "9", ".", "9", ".", "9">>
IpEmpty == <<>>
IpBlank == <<" ", " ", " ">>

ValidIps == {IpGoogle, IpB, IpC}
Ips == ValidIps \cup {IpEmpty, IpBlank}

WhiteSpace == {" ", "\t", "\n", "\r"}

RECURSIVE TrimStart(_)
TrimStart(s) ==
    IF s # <<>> /\ Head(s) \in WhiteSpace THEN TrimStart(Tail(s)) ELSE s

RECURSIVE TrimEnd(_)
TrimEnd(s) ==
    IF s # <<>> /\ s[Len(s)] \in WhiteSpace
    THEN TrimEnd(SubSeq(s, 1, Len(s) - 1))
    ELSE s

\* a validation that forgets to trim
TrimNothing(s) == s

\* str::trim
Trim(s) == TrimEnd(TrimStart(s))

---------------------------------------------------------------------------
(* LocationInfo and ApiError *)

LocationInfo(cc, name, city, region, lat, lon, tz) ==
    [country_code |-> cc, country_name |-> name, city |-> city,
     region |-> region, latitude |-> lat, longitude |-> lon, timezone |-> tz]

default_location ==
    LocationInfo("US", "United States", None, None, None, None, None)

BadRequest(m) == [variant |-> "BadRequest", message |-> m]
InternalServerError(m) == [variant |-> "InternalServerError", message |-> m]

Ok(v) == [kind |-> "Ok", value |-> v]
Err(e) == [kind |-> "Err", error |-> e]
NoResult == [kind |-> "none"]

---------------------------------------------------------------------------
(* HTTP exchanges.  A request either fails in transport (connection error, *)
(* per-call timeout elapsed) or yields a status and a body.                *)

SendError(cause) == [sent |-> FALSE, cause |-> cause]
Response(status, body) == [sent |-> TRUE, status |-> status, body |-> body]

\* reqwest StatusCode::is_success: 200..=299
is_success(status) == status >= 200 /\ status <= 299

Garbage == [raw |-> "<html>"]

MapGet(m, k) == IF k \in DOMAIN m THEN Some(m[k]) ELSE None

(* MaxMind GeoIP2 bodies *)
MmFull ==
    [country |-> [iso_code |-> "FR", names |-> [en |-> "France", de |-> "Frankreich"]],
     city |-> Some([names |-> [en |-> "Paris"]]),
     location |-> Some([latitude |-> Some("48.85"), longitude |-> Some("2.35"),
                        time_zone |-> Some("Europe/Paris")]),
     subdivisions |-> Some(<<[names |-> [en |-> "Ile-de-France"]]>>)]

MaxMindBodies == {MmFull, Garbage}

PrimaryExchanges ==
    {SendError("connect"), SendError("timeout")}
    \cup {Response(200, b) : b \in MaxMindBodies}
    \cup {Response(s, Garbage) : s \in {401, 404, 429, 500}}

\* serde: MaxMindResponse requires `country`; the other fields are Options
OptionField(body, f) == IF f \in DOMAIN body THEN body[f] ELSE None

ParseMaxMind(body) ==
    IF "country" \in DOMAIN body
    THEN Some([country |-> body.country,
               city |-> OptionField(body, "city"),
               location |-> OptionField(body, "location"),
               subdivisions |-> OptionField(body, "subdivisions")])
    ELSE None

(* ip-api.com bodies *)
FallbackRequired ==
    {"status", "country", "countryCode", "region", "regionName", "city", "zip",
     "lat", "lon", "timezone", "isp", "org", "as", "query"}

FallbackBody(status, cc, country) ==
    [status |-> status, country |-> country, countryCode |-> cc, region |-> "ENG",
     regionName |-> "England", city |-> "London", zip |-> "", lat |-> "51.5",
     lon |-> "-0.12", timezone |-> "Europe/London", isp |-> "", org |-> "",
     as |-> "", query |-> ""]

FbSuccess == FallbackBody("success", "GB", "United Kingdom")
FbSuccessNoCode == FallbackBody("success", "", "")
FbFailFull == FallbackBody("fail", "", "")
\* what ip-api.com answers for an address it cannot resolve
FbFail == [status |-> "fail", message |-> "reserved range", query |-> ""]

FallbackBodies == {FbSuccess, FbSuccessNoCode, FbFailFull, FbFail, Garbage}

FallbackExchanges ==
    {SendError("connect"), SendError("timeout")}
    \cup {Response(200, b) : b \in FallbackBodies}
    \cup {Response(s, Garbage) : s \in {429, 500}}

\* serde: every non-Option field of FallbackApiResponse must be present
ParseFallback(body) ==
    IF FallbackRequired \subseteq DOMAIN body THEN Some(body) ELSE None

---------------------------------------------------------------------------
(* Provider clients *)

\* a conversion that takes any localized name where the English one is missing
convert_maxmind_response_any_name(response) ==
    LET AnyName(names) == IF "en" \in DOMAIN names THEN names["en"]
                          ELSE names[CHOOSE k \in DOMAIN names : TRUE]
        loc == response.location
    IN  LocationInfo(response.country.iso_code, AnyName(response.country.names),
                     IF IsSome(response.city)
                     THEN Some(AnyName(Unwrap(response.city).names)) ELSE None,
                     IF IsSome(response.subdivisions) /\ Unwrap(response.subdivisions) # <<>>
                     THEN Some(AnyName(Head(Unwrap(response.subdivisions)).names))
                     ELSE None,
                     IF IsSome(loc) THEN Unwrap(loc).latitude ELSE None,
                     IF IsSome(loc) THEN Unwrap(loc).longitude ELSE None,
                     IF IsSome(loc) THEN Unwrap(loc).time_zone ELSE None)

\* convert_maxmind_response, lines 467-495
convert_maxmind_response(response) ==
    LET country_code == response.country.iso_code
        en == MapGet(response.country.names, "en")
        country_name == IF IsSome(en) THEN Unwrap(en) ELSE country_code
        city == IF IsSome(response.city)
                THEN MapGet(Unwrap(response.city).names, "en") ELSE None
        region == IF IsSome(response.subdivisions) /\ Unwrap(response.subdivisions) # <<>>
                  THEN MapGet(Head(Unwrap(response.subdivisions)).names, "en")
                  ELSE None
        loc == response.location
    IN  LocationInfo(country_code, country_name, city, region,
                     IF IsSome(loc) THEN Unwrap(loc).latitude ELSE None,
                     IF IsSome(loc) THEN Unwrap(loc).longitude ELSE None,
                     IF IsSome(loc) THEN Unwrap(loc).time_zone ELSE None)

\* a primary client for which an unknown address is one more error status
fetch_from_maxmind_not_found_fails(x) ==
    IF ~x.sent
    THEN Err(InternalServerError("Geolocation API request failed"))
    ELSE IF ~is_success(x.status)
    THEN CASE x.status = 401 ->
                Err(InternalServerError("Geolocation service authentication failed"))
           [] x.status = 429 ->
                Err(InternalServerError("Geolocation service rate limited"))
           [] OTHER -> Err(InternalServerError("Geolocation service error"))
    ELSE IF ~IsSome(ParseMaxMind(x.body))
    THEN Err(InternalServerError("Failed to parse geolocation response"))
    ELSE Ok(convert_maxmind_response(Unwrap(ParseMaxMind(x.body))))

\* a primary client that answers a rate limit like an unknown address
fetch_from_maxmind_lenient(x) ==
    IF ~x.sent
    THEN Err(InternalServerError("Geolocation API request failed"))
    ELSE IF ~is_success(x.status)
    THEN CASE x.status = 401 ->
                Err(InternalServerError("Geolocation service authentication failed"))
           [] x.status = 404 -> Ok(default_location)
           [] x.status = 429 -> Ok(default_location)
           [] OTHER -> Err(InternalServerError("Geolocation service error"))
    ELSE IF ~IsSome(ParseMaxMind(x.body))
    THEN Err(InternalServerError("Failed to parse geolocation response"))
    ELSE Ok(convert_maxmind_response(Unwrap(ParseMaxMind(x.body))))

fetch_from_maxmind(x) ==
    IF ~x.sent
    THEN Err(InternalServerError("Geolocation API request failed"))
    ELSE IF ~is_success(x.status)
    THEN CASE x.status = 401 ->
                Err(InternalServerError("Geolocation service authentication failed"))
           [] x.status = 404 -> Ok(default_location)
           [] x.status = 429 ->
                Err(InternalServerError("Geolocation service rate limited"))
           [] OTHER -> Err(InternalServerError("Geolocation service error"))
    ELSE IF ~IsSome(ParseMaxMind(x.body))
    THEN Err(InternalServerError("Failed to parse geolocation response"))
    ELSE Ok(convert_maxmind_response(Unwrap(ParseMaxMind(x.body))))

\* a fallback client that treats a non-success status as the primary does
fetch_from_fallback_service_strict(x) ==
    IF ~x.sent
    THEN Err(InternalServerError("Fallback geolocation API request failed"))
    ELSE IF ~is_success(x.status)
    THEN Err(InternalServerError("Fallback geolocation API request failed"))
    ELSE IF ~IsSome(ParseFallback(x.body))
    THEN Err(InternalServerError("Failed to parse fallback geolocation response"))
    ELSE LET r == Unwrap(ParseFallback(x.body))
         IN  IF r.status # "success"
             THEN Ok(default_location)
             ELSE Ok(LocationInfo(r.countryCode, r.country, Some(r.city),
                                  Some(r.regionName), Some(r.lat), Some(r.lon),
                                  Some(r.timezone)))

fetch_from_fallback_service(x) ==
    IF ~x.sent
    THEN Err(InternalServerError("Fallback geolocation API request failed"))
    ELSE IF ~is_success(x.status)
    THEN Ok(default_location)
    ELSE IF ~IsSome(ParseFallback(x.body))
    THEN Err(InternalServerError("Failed to parse fallback geolocation response"))
    ELSE LET r == Unwrap(ParseFallback(x.body))
         IN  IF r.status # "success"
             THEN Ok(default_location)
             ELSE Ok(LocationInfo(r.countryCode, r.country, Some(r.city),
                                  Some(r.regionName), Some(r.lat), Some(r.lon),
                                  Some(r.timezone)))

\* a guard that knows the empty key only
KeyConfiguredNonEmpty(api_key) == api_key # ""

\* the guard of fetch_from_api: is a real MaxMind key configured?
KeyConfigured(api_key) ==
    api_key # "" /\ api_key # "demo_key" /\ api_key # "your_maxmind_api_key"

ApiKeys == {"", "demo_key", "your_maxmind_api_key", "live_key_1"}

---------------------------------------------------------------------------
(* The cache: HashMap<String, CacheEntry> behind Arc<RwLock<..>> *)

CacheEntry(loc, t) == [location |-> loc, timestamp |-> t]

Min(a, b) == IF a <= b THEN a ELSE b

\* a lookup that still serves an entry whose age equals the ttl
get_from_cache_inclusive(c, key, t, ttl) ==
    IF key \in DOMAIN c /\ t - c[key].timestamp <= ttl
    THEN Some(c[key].location)
    ELSE None

\* a lookup that gives an entry up one second early
get_from_cache_early(c, key, t, ttl) ==
    IF key \in DOMAIN c /\ t - c[key].timestamp + 1 < ttl
    THEN Some(c[key].location)
    ELSE None

\* a lookup that does not serve the default record
get_from_cache_skipping_default(c, key, t, ttl) ==
    IF key \in DOMAIN c /\ t - c[key].timestamp < ttl /\ c[key].location # default_location
    THEN Some(c[key].location)
    ELSE None

\* get_from_cache between taking and dropping the read guard
get_from_cache(c, key, t, ttl) ==
    IF key \in DOMAIN c /\ t - c[key].timestamp < ttl
    THEN Some(c[key].location)
    ELSE None

\* cache.retain(|_, entry| now.duration_since(entry.timestamp) < ttl)
Retain(c, t, ttl) ==
    [k \in {x \in DOMAIN c : t - c[x].timestamp < ttl} |-> c[k]]

\* the orders in which a HashMap may iterate over its keys
IterationOrders(c) ==
    {o \in [1..Cardinality(DOMAIN c) -> DOMAIN c] :
        \A i, j \in DOMAIN o : i # j => o[i] # o[j]}

\* one step of a stable sort: e goes after every element whose key is <= its own
RECURSIVE InsertByTimestamp(_, _, _)
InsertByTimestamp(sorted, e, c) ==
    IF sorted = <<>> THEN <<e>>
    ELSE IF c[Head(sorted)].timestamp <= c[e].timestamp
         THEN <<Head(sorted)>> \o InsertByTimestamp(Tail(sorted), e, c)
         ELSE <<e>> \o sorted

\* entries_with_timestamps.sort_by_key(|(_, timestamp)| *timestamp)
RECURSIVE SortByTimestamp(_, _)
SortByTimestamp(order, c) ==
    IF order = <<>> THEN <<>>
    ELSE InsertByTimestamp(SortByTimestamp(SubSeq(order, 1, Len(order) - 1), c),
                           order[Len(order)], c)

Take(s, n) == SubSeq(s, 1, Min(n, Len(s)))

Range(s) == {s[i] : i \in DOMAIN s}

Without(c, keys) == [k \in DOMAIN c \ keys |-> c[k]]

\* a count of removals that only brings the map back to its capacity
ToRemoveExact(len, max) == len - max

\* cache.len() - max_cache_entries + 1
ToRemove(len, max) == len - max + 1

\* the second half of the clean-up of cache_location: oldest entries go
RemoveOldest(c, max) ==
    IF Cardinality(DOMAIN c) >= max
    THEN {Without(c, Range(Take(SortByTimestamp(o, c),
                                ToRemove(Cardinality(DOMAIN c), max)))) :
            o \in IterationOrders(c)}
    ELSE {c}

\* a clean-up that drops the expired entries in every put
CleanUpAlwaysSweeping(c, t, ttl, max) ==
    IF Cardinality(DOMAIN c) >= max
    THEN RemoveOldest(Retain(c, t, ttl), max)
    ELSE {Retain(c, t, ttl)}

\* cache_location up to its insert: every cache the clean-up may leave
CleanUp(c, t, ttl, max) ==
    IF Cardinality(DOMAIN c) >= max
    THEN RemoveOldest(Retain(c, t, ttl), max)
    ELSE {c}

\* an insert that keeps the entry a key already has
CacheInsertIfAbsent(c, key, loc, t) ==
    [k \in DOMAIN c \cup {key} |-> IF k \in DOMAIN c THEN c[k] ELSE CacheEntry(loc, t)]

\* cache.insert(ip, CacheEntry { location, timestamp: Instant::now() })
CacheInsert(c, key, loc, t) ==
    [k \in DOMAIN c \cup {key} |-> IF k = key THEN CacheEntry(loc, t) ELSE c[k]]

EmptyCache == [k \in {} |-> CacheEntry(default_location, 0)]

\* a count that still takes an entry whose age equals the ttl for valid
valid_entries_inclusive(c, t, ttl) ==
    Cardinality({k \in DOMAIN c : t - c[k].timestamp <= ttl})

\* cache.values().filter(|entry| now.duration_since(entry.timestamp) < ttl).count()
valid_entries(c, t, ttl) ==
    Cardinality({k \in DOMAIN c : t - c[k].timestamp < ttl})

\* get_cache_stats under its read guard: (total_entries, valid_entries)
get_cache_stats(c, t, ttl) == <<Cardinality(DOMAIN c), valid_entries(c, t, ttl)>>

\* Ok(()): the unit value, a record with no field of a LocationInfo
Unit == [unit |-> "()"]

\* a health check that counts the default record as unhealthy
health_check_wary(r) ==
    IF r.kind = "Ok"
    THEN (IF r.value = default_location
          THEN Err(InternalServerError("Geolocation service degraded"))
          ELSE Ok(Unit))
    ELSE Err(r.error)

\* health_check: the match on the result of get_location("8.8.8.8")
health_check(r) == IF r.kind = "Ok" THEN Ok(Unit) ELSE Err(r.error)

---------------------------------------------------------------------------
(* What a provider answered, as seen from outside the resolver *)

\* the failures of the primary: transport error, timeout elapsed, 401, 429,
\* another non-success status other than 404, a body that is no MaxMind response
PrimaryFailed(x) ==
    \/ ~x.sent
    \/ x.sent /\ ~is_success(x.status) /\ x.status # 404
    \/ x.sent /\ is_success(x.status) /\ "country" \notin DOMAIN x.body

PrimaryClass(x) ==
    IF PrimaryFailed(x) THEN "failed"
    ELSE IF x.status = 404 THEN "not_found"
    ELSE "success"

\* "fail_full"/"fail_partial": a success status whose body carries a status
\* field other than "success", with or without the other fields of a full answer
FallbackClass(x) ==
    IF ~x.sent THEN "transport"
    ELSE IF ~is_success(x.status) THEN "http_error"
    ELSE IF "status" \notin DOMAIN x.body THEN "garbage"
    ELSE IF x.body.status # "success"
    THEN (IF FallbackRequired \subseteq DOMAIN x.body THEN "fail_full" ELSE "fail_partial")
    ELSE (IF FallbackRequired \subseteq DOMAIN x.body THEN "success" ELSE "success_partial")

\* provider requests issued by task p in its current call
Calls(p) ==
    (IF primary[p] # "none" THEN 1 ELSE 0) + (IF fallback[p] # "none" THEN 1 ELSE 0)

---------------------------------------------------------------------------
(* History of back-to-back calls: a call made while no other call is in    *)
(* flight (stage "first"), its return ("between"), and the next call on    *)
(* the resolver, made for the same ip before anything else ("second"); a   *)
(* call of the pair that its caller drops leaves stage "cancelled".        *)
(* tw is the insertion time of the entry the first call wrote or hit (-1   *)
(* when it returned an error), calls the provider requests it issued, and  *)
(* within tells whether the second call looked the cache up before         *)
(* tw + ttl.                                                               *)

NoSeq ==
    [stage |-> "none", owner |-> NoTask, ip |-> IpEmpty, tw |-> -1, calls |-> 0,
     within |-> FALSE]

InFlight(p) == seq.owner = p /\ seq.stage \in {"first", "second"}

SeqOnCall(p, i) ==
    IF seq.stage = "between" /\ i = seq.ip
    THEN [seq EXCEPT !.stage = "second", !.owner = p]
    ELSE IF \A q \in Tasks : pc[q] = "idle"
    THEN [NoSeq EXCEPT !.stage = "first", !.owner = p, !.ip = i]
    ELSE NoSeq

SeqOnLookup(p) ==
    IF seq.stage = "second" /\ seq.owner = p
    THEN [seq EXCEPT !.within = (seq.tw >= 0 /\ now < seq.tw + config.cache_ttl_seconds)]
    ELSE seq

SeqOnReturn(p) ==
    IF InFlight(p)
    THEN [NoSeq EXCEPT !.stage = "between", !.ip = seq.ip,
                       !.tw = IF result[p].kind = "Ok"
                              THEN cache[ip[p]].timestamp ELSE -1,
                       !.calls = Calls(p)]
    ELSE seq

SeqOnCancel(p) ==
    IF InFlight(p) THEN [NoSeq EXCEPT !.stage = "cancelled"] ELSE seq

---------------------------------------------------------------------------
(* The state machine *)

Configs ==
    [api_key : ApiKeys, cache_ttl_seconds : 0..MaxTtl, max_cache_entries : 0..MaxCap]

NoUtil ==
    [fn |-> "none", headers |-> <<>>, country_code |-> <<>>, response |-> None,
     phone_number |-> <<>>, out |-> None]

\* a service that nothing has called yet
Fresh ==
    /\ cache = EmptyCache
    /\ now = 0
    /\ writer = NoTask
    /\ readers = {}
    /\ pc = [p \in Tasks |-> "idle"]
    /\ ip = [p \in Tasks |-> IpEmpty]
    /\ location = [p \in Tasks |-> None]
    /\ result = [p \in Tasks |-> NoResult]
    /\ primary = [p \in Tasks |-> "none"]
    /\ fallback = [p \in Tasks |-> "none"]
    /\ started = 0
    /\ seq = NoSeq
    /\ op = [p \in Tasks |-> "none"]
    /\ trace = [p \in Tasks |-> <<>>]

\* GeolocationService::new, called by one task at a time
Init ==
    /\ config \in Configs
    /\ callers = {"t1"}
    /\ Fresh
    /\ util = NoUtil

\* get_location, lines 132-148: entry and input validation
Enter(p, i) ==
    /\ p \in callers
    /\ pc[p] = "idle"
    /\ started < MaxCalls
    /\ started' = started + 1
    /\ ip' = [ip EXCEPT ![p] = i]
    /\ trace' = [trace EXCEPT ![p] = <<>>]
    /\ seq' = SeqOnCall(p, i)
    /\ IF Trim(i) = <<>>
       THEN /\ result' = [result EXCEPT ![p] = Err(BadRequest("IP address is required"))]
            /\ pc' = [pc EXCEPT ![p] = "done"]
       ELSE /\ result' = result
            /\ pc' = [pc EXCEPT ![p] = "cache_read"]
    /\ UNCHANGED <<config, cache, now, writer, readers, location, primary, fallback,
                   callers, util>>

\* a caller calls get_location(ip_address)
Call(p, i) ==
    /\ op' = [op EXCEPT ![p] = "get_location"]
    /\ Enter(p, i)

\* a health check that asks the providers without looking the cache up
HealthCheckProbing(p) ==
    /\ op' = [op EXCEPT ![p] = "health_check"]
    /\ p \in callers
    /\ pc[p] = "idle"
    /\ started < MaxCalls
    /\ started' = started + 1
    /\ ip' = [ip EXCEPT ![p] = IpGoogle]
    /\ seq' = SeqOnCall(p, IpGoogle)
    /\ IF KeyConfigured(config.api_key)
       THEN /\ primary' = [primary EXCEPT ![p] = "pending"]
            /\ pc' = [pc EXCEPT ![p] = "primary"]
            /\ trace' = [trace EXCEPT ![p] = <<"primary">>]
            /\ UNCHANGED fallback
       ELSE /\ fallback' = [fallback EXCEPT ![p] = "pending"]
            /\ pc' = [pc EXCEPT ![p] = "fallback"]
            /\ trace' = [trace EXCEPT ![p] = <<"fallback">>]
            /\ UNCHANGED primary
    /\ UNCHANGED <<config, cache, now, writer, readers, location, result, callers, util>>

\* health_check, lines 511-517: get_location("8.8.8.8")
HealthCheck(p) ==
    /\ op' = [op EXCEPT ![p] = "health_check"]
    /\ Enter(p, IpGoogle)

\* a read guard handed out while a writer holds the lock
AcquireReadUnguarded(p) ==
    /\ pc[p] = "cache_read"
    /\ readers' = readers \cup {p}
    /\ pc' = [pc EXCEPT ![p] = "reading"]
    /\ UNCHANGED <<config, cache, now, writer, ip, location, result, primary,
                   fallback, started, callers, seq, op, trace, util>>

\* get_from_cache, line 207: self.cache.read().await
AcquireRead(p) ==
    /\ pc[p] = "cache_read"
    /\ writer = NoTask
    /\ readers' = readers \cup {p}
    /\ pc' = [pc EXCEPT ![p] = "reading"]
    /\ UNCHANGED <<config, cache, now, writer, ip, location, result, primary,
                   fallback, started, callers, seq, op, trace, util>>

\* a lookup whose hit is written back to the cache, as a fetched record is
ReadCacheWritingBack(p) ==
    /\ pc[p] = "reading"
    /\ readers' = readers \ {p}
    /\ seq' = SeqOnLookup(p)
    /\ LET found == get_from_cache(cache, ip[p], now, config.cache_ttl_seconds)
       IN  IF IsSome(found)
           THEN /\ location' = [location EXCEPT ![p] = found]
                /\ pc' = [pc EXCEPT ![p] = "cache_write"]
                /\ trace' = [trace EXCEPT ![p] = Append(@, "hit")]
                /\ UNCHANGED <<primary, fallback>>
           ELSE IF KeyConfigured(config.api_key)
           THEN /\ primary' = [primary EXCEPT ![p] = "pending"]
                /\ pc' = [pc EXCEPT ![p] = "primary"]
                /\ trace' = [trace EXCEPT ![p] = @ \o <<"miss", "primary">>]
                /\ UNCHANGED <<location, fallback>>
           ELSE /\ fallback' = [fallback EXCEPT ![p] = "pending"]
                /\ pc' = [pc EXCEPT ![p] = "fallback"]
                /\ trace' = [trace EXCEPT ![p] = @ \o <<"miss", "fallback">>]
                /\ UNCHANGED <<location, primary>>
    /\ UNCHANGED <<config, cache, now, writer, ip, result, started, callers, op, util>>

\* a lookup whose read guard lives on into the provider calls of a miss
ReadCacheKeepingGuard(p) ==
    /\ pc[p] = "reading"
    /\ seq' = SeqOnLookup(p)
    /\ LET found == get_from_cache(cache, ip[p], now, config.cache_ttl_seconds)
       IN  IF IsSome(found)
           THEN /\ result' = [result EXCEPT ![p] = Ok(Unwrap(found))]
                /\ pc' = [pc EXCEPT ![p] = "done"]
                /\ trace' = [trace EXCEPT ![p] = Append(@, "hit")]
                /\ readers' = readers \ {p}
                /\ UNCHANGED <<primary, fallback>>
           ELSE IF KeyConfigured(config.api_key)
           THEN /\ primary' = [primary EXCEPT ![p] = "pending"]
                /\ pc' = [pc EXCEPT ![p] = "primary"]
                /\ trace' = [trace EXCEPT ![p] = @ \o <<"miss", "primary">>]
                /\ UNCHANGED <<result, fallback, readers>>
           ELSE /\ fallback' = [fallback EXCEPT ![p] = "pending"]
                /\ pc' = [pc EXCEPT ![p] = "fallback"]
                /\ trace' = [trace EXCEPT ![p] = @ \o <<"miss", "fallback">>]
                /\ UNCHANGED <<result, primary, readers>>
    /\ UNCHANGED <<config, cache, now, writer, ip, location, started, callers, op, util>>

\* get_from_cache, lines 209-219, then get_location lines 151-170 on a hit,
\* or the start of fetch_from_api (lines 261-266, 282) on a miss
ReadCache(p) ==
    /\ pc[p] = "reading"
    /\ readers' = readers \ {p}
    /\ seq' = SeqOnLookup(p)
    /\ LET found == get_from_cache(cache, ip[p], now, config.cache_ttl_seconds)
       IN  IF IsSome(found)
           THEN /\ result' = [result EXCEPT ![p] = Ok(Unwrap(found))]
                /\ pc' = [pc EXCEPT ![p] = "done"]
                /\ trace' = [trace EXCEPT ![p] = Append(@, "hit")]
                /\ UNCHANGED <<primary, fallback>>
           ELSE IF KeyConfigured(config.api_key)
           THEN /\ primary' = [primary EXCEPT ![p] = "pending"]
                /\ pc' = [pc EXCEPT ![p] = "primary"]
                /\ trace' = [trace EXCEPT ![p] = @ \o <<"miss", "primary">>]
                /\ UNCHANGED <<result, fallback>>
           ELSE /\ fallback' = [fallback EXCEPT ![p] = "pending"]
                /\ pc' = [pc EXCEPT ![p] = "fallback"]
                /\ trace' = [trace EXCEPT ![p] = @ \o <<"miss", "fallback">>]
                /\ UNCHANGED <<result, primary>>
    /\ UNCHANGED <<config, cache, now, writer, ip, location, started, callers, op, util>>

\* a fetch_from_api that asks the primary a second time after a failure
PrimaryRespondsRetrying(p, x) ==
    /\ pc[p] = "primary"
    /\ primary' = [primary EXCEPT ![p] = PrimaryClass(x)]
    /\ LET r == fetch_from_maxmind(x)
       IN  IF r.kind = "Ok"
           THEN /\ location' = [location EXCEPT ![p] = Some(r.value)]
                /\ pc' = [pc EXCEPT ![p] = "cache_write"]
                /\ UNCHANGED <<fallback, trace>>
           ELSE IF Len(trace[p]) = 2
           THEN /\ trace' = [trace EXCEPT ![p] = Append(@, "primary")]
                /\ UNCHANGED <<pc, fallback, location>>
           ELSE /\ fallback' = [fallback EXCEPT ![p] = "pending"]
                /\ pc' = [pc EXCEPT ![p] = "fallback"]
                /\ trace' = [trace EXCEPT ![p] = Append(@, "fallback")]
                /\ UNCHANGED location
    /\ UNCHANGED <<config, cache, now, writer, readers, ip, result, started, callers,
                   seq, op, util>>

\* fetch_from_maxmind completes; fetch_from_api lines 266-279
PrimaryResponds(p, x) ==
    /\ pc[p] = "primary"
    /\ primary' = [primary EXCEPT ![p] = PrimaryClass(x)]
    /\ LET r == fetch_from_maxmind(x)
       IN  IF r.kind = "Ok"
           THEN /\ location' = [location EXCEPT ![p] = Some(r.value)]
                /\ pc' = [pc EXCEPT ![p] = "cache_write"]
                /\ UNCHANGED <<fallback, trace>>
           ELSE /\ fallback' = [fallback EXCEPT ![p] = "pending"]
                /\ pc' = [pc EXCEPT ![p] = "fallback"]
                /\ trace' = [trace EXCEPT ![p] = Append(@, "fallback")]
                /\ UNCHANGED location
    /\ UNCHANGED <<config, cache, now, writer, readers, ip, result, started, callers,
                   seq, op, util>>

\* a failure of the fallback that also drops the entry stored for the address
FallbackRespondsForgetting(p, x) ==
    /\ pc[p] = "fallback"
    /\ fallback' = [fallback EXCEPT ![p] = FallbackClass(x)]
    /\ LET r == fetch_from_fallback_service(x)
       IN  IF r.kind = "Ok"
           THEN /\ location' = [location EXCEPT ![p] = Some(r.value)]
                /\ pc' = [pc EXCEPT ![p] = "cache_write"]
                /\ UNCHANGED <<result, cache>>
           ELSE /\ result' = [result EXCEPT ![p] = r]
                /\ pc' = [pc EXCEPT ![p] = "done"]
                /\ cache' = Without(cache, {ip[p]})
                /\ UNCHANGED location
    /\ UNCHANGED <<config, now, writer, readers, ip, primary, started, callers,
                   seq, op, trace, util>>

\* fetch_from_fallback_service completes; get_location line 179 (the `?`)
FallbackResponds(p, x) ==
    /\ pc[p] = "fallback"
    /\ fallback' = [fallback EXCEPT ![p] = FallbackClass(x)]
    /\ LET r == fetch_from_fallback_service(x)
       IN  IF r.kind = "Ok"
           THEN /\ location' = [location EXCEPT ![p] = Some(r.value)]
                /\ pc' = [pc EXCEPT ![p] = "cache_write"]
                /\ UNCHANGED result
           ELSE /\ result' = [result EXCEPT ![p] = r]
                /\ pc' = [pc EXCEPT ![p] = "done"]
                /\ UNCHANGED location
    /\ UNCHANGED <<config, cache, now, writer, readers, ip, primary, started, callers,
                   seq, op, trace, util>>

\* cache_location, lines 223-246: take the write guard and clean up
AcquireWrite(p) ==
    /\ pc[p] = "cache_write"
    /\ writer = NoTask
    /\ readers = {}
    /\ writer' = p
    /\ cache' \in CleanUp(cache, now, config.cache_ttl_seconds,
                          config.max_cache_entries)
    /\ pc' = [pc EXCEPT ![p] = "inserting"]
    /\ trace' = [trace EXCEPT ![p] = Append(@, "write")]
    /\ UNCHANGED <<config, now, readers, ip, location, result, primary, fallback,
                   started, callers, seq, op, util>>

\* a put that never drops its write guard
InsertKeepingGuard(p) ==
    /\ pc[p] = "inserting"
    /\ writer = p
    /\ cache' = CacheInsert(cache, ip[p], Unwrap(location[p]), now)
    /\ result' = [result EXCEPT ![p] = Ok(Unwrap(location[p]))]
    /\ pc' = [pc EXCEPT ![p] = "done"]
    /\ UNCHANGED <<config, now, writer, readers, ip, location, primary, fallback,
                   started, callers, seq, op, trace, util>>

\* cache_location, lines 248-252, then get_location lines 184-202
Insert(p) ==
    /\ pc[p] = "inserting"
    /\ writer = p
    /\ cache' = CacheInsert(cache, ip[p], Unwrap(location[p]), now)
    /\ writer' = NoTask
    /\ result' = [result EXCEPT ![p] = Ok(Unwrap(location[p]))]
    /\ pc' = [pc EXCEPT ![p] = "done"]
    /\ UNCHANGED <<config, now, readers, ip, location, primary, fallback, started,
                   callers, seq, op, trace, util>>

\* health_check, lines 517-534: the match on what get_location returned
HealthCheckReports(p) ==
    /\ pc[p] = "done"
    /\ op[p] = "health_check"
    /\ result' = [result EXCEPT ![p] = health_check(@)]
    /\ pc' = [pc EXCEPT ![p] = "reported"]
    /\ UNCHANGED <<config, cache, now, writer, readers, ip, location, primary,
                   fallback, started, callers, seq, op, trace, util>>

\* get_cache_stats, line 539: self.cache.read().await
AcquireReadStats(p) ==
    /\ p \in callers
    /\ pc[p] = "idle"
    /\ started < MaxCalls
    /\ writer = NoTask
    /\ started' = started + 1
    /\ readers' = readers \cup {p}
    /\ op' = [op EXCEPT ![p] = "get_cache_stats"]
    /\ pc' = [pc EXCEPT ![p] = "counting"]
    /\ UNCHANGED <<config, cache, now, writer, ip, location, result, primary,
                   fallback, callers, seq, trace, util>>

\* a stats call that drops the expired entries it meets
CountEntriesSweeping(p) ==
    /\ pc[p] = "counting"
    /\ readers' = readers \ {p}
    /\ cache' = Retain(cache, now, config.cache_ttl_seconds)
    /\ result' = [result EXCEPT ![p] = Ok(get_cache_stats(cache, now,
                                                          config.cache_ttl_seconds))]
    /\ pc' = [pc EXCEPT ![p] = "done"]
    /\ UNCHANGED <<config, now, writer, ip, location, primary, fallback,
                   started, callers, seq, op, trace, util>>

\* get_cache_stats, lines 540-550: count under the read guard, then drop it
CountEntries(p) ==
    /\ pc[p] = "counting"
    /\ readers' = readers \ {p}
    /\ result' = [result EXCEPT ![p] = Ok(get_cache_stats(cache, now,
                                                          config.cache_ttl_seconds))]
    /\ pc' = [pc EXCEPT ![p] = "done"]
    /\ UNCHANGED <<config, cache, now, writer, ip, location, primary, fallback,
                   started, callers, seq, op, trace, util>>

\* a future that could also be dropped between the clean-up and the insert
SuspensionPointsMidWrite == {"cache_read", "primary", "fallback", "cache_write", "inserting"}

\* the places where get_location is suspended: its .await points
SuspensionPoints == {"cache_read", "primary", "fallback", "cache_write"}

\* the caller drops the future of get_location (or of health_check) at an .await
Cancel(p) ==
    /\ pc[p] \in SuspensionPoints
    /\ seq' = SeqOnCancel(p)
    /\ pc' = [pc EXCEPT ![p] = "idle"]
    /\ ip' = [ip EXCEPT ![p] = IpEmpty]
    /\ location' = [location EXCEPT ![p] = None]
    /\ result' = [result EXCEPT ![p] = NoResult]
    /\ primary' = [primary EXCEPT ![p] = "none"]
    /\ fallback' = [fallback EXCEPT ![p] = "none"]
    /\ op' = [op EXCEPT ![p] = "none"]
    /\ trace' = [trace EXCEPT ![p] = <<>>]
    /\ UNCHANGED <<config, cache, now, writer, readers, started, callers, util>>

\* the caller takes the result
Return(p) ==
    /\ \/ pc[p] = "done" /\ op[p] # "health_check"
       \/ pc[p] = "reported"
    /\ seq' = SeqOnReturn(p)
    /\ pc' = [pc EXCEPT ![p] = "idle"]
    /\ ip' = [ip EXCEPT ![p] = IpEmpty]
    /\ location' = [location EXCEPT ![p] = None]
    /\ result' = [result EXCEPT ![p] = NoResult]
    /\ primary' = [primary EXCEPT ![p] = "none"]
    /\ fallback' = [fallback EXCEPT ![p] = "none"]
    /\ op' = [op EXCEPT ![p] = "none"]
    /\ trace' = [trace EXCEPT ![p] = <<>>]
    /\ UNCHANGED <<config, cache, now, writer, readers, started, callers, util>>

\* the monotonic clock advances
Tick ==
    /\ now < MaxTime
    /\ now' = now + 1
    /\ UNCHANGED <<config, cache, writer, readers, pc, ip, location, result,
                   primary, fallback, started, callers, seq, op, trace, util>>

Next ==
    \/ \E p \in Tasks, i \in Ips : Call(p, i)
    \/ \E p \in Tasks : HealthCheck(p)
    \/ \E p \in Tasks : AcquireRead(p)
    \/ \E p \in Tasks : ReadCache(p)
    \/ \E p \in Tasks, x \in PrimaryExchanges : PrimaryResponds(p, x)
    \/ \E p \in Tasks, x \in FallbackExchanges : FallbackResponds(p, x)
    \/ \E p \in Tasks : AcquireWrite(p)
    \/ \E p \in Tasks : Insert(p)
    \/ \E p \in Tasks : HealthCheckReports(p)
    \/ \E p \in Tasks : AcquireReadStats(p)
    \/ \E p \in Tasks : CountEntries(p)
    \/ \E p \in Tasks : Cancel(p)
    \/ \E p \in Tasks : Return(p)
    \/ Tick

Spec == Init /\ [][Next]_vars

\* the service shared (Arc) by two tasks that call it concurrently
ConcurrentConfigs ==
    [api_key : {"demo_key", "live_key_1"}, cache_ttl_seconds : {1},
     max_cache_entries : {1, 2}]

InitConcurrent ==
    /\ config \in ConcurrentConfigs
    /\ callers = Tasks
    /\ Fresh
    /\ util = NoUtil

SpecConcurrent == InitConcurrent /\ [][Next]_vars

(* Scheduling. The runtime polls every task that can run, so a step that   *)
(* stays possible is taken (WF); every provider request carries a timeout  *)
(* (lines 304 and 397), so it returns; tokio's RwLock queues its waiters   *)
(* in order of arrival, so a task waiting for a guard gets it once the     *)
(* lock has been free often enough (SF). Callers are not obliged to call,  *)
(* to take a result, or to drop a call. Every step moves its task, so the  *)
(* steps are told apart by pc.                                             *)
Fairness ==
    \A p \in Tasks :
        /\ SF_pc(AcquireRead(p))
        /\ SF_pc(AcquireWrite(p))
        /\ WF_pc(ReadCache(p))
        /\ WF_pc(\E x \in PrimaryExchanges : PrimaryResponds(p, x))
        /\ WF_pc(\E x \in FallbackExchanges : FallbackResponds(p, x))
        /\ WF_pc(Insert(p))
        /\ WF_pc(HealthCheckReports(p))
        /\ WF_pc(CountEntries(p))

\* the addresses the two tasks ask for when termination is at stake
FairIps == {IpGoogle, IpBlank}

\* two tasks share a service whose primary is configured and whose cache holds one entry
InitFair ==
    /\ config = [api_key |-> "live_key_1", cache_ttl_seconds |-> 1,
                 max_cache_entries |-> 1]
    /\ callers = Tasks
    /\ Fresh
    /\ util = NoUtil

NextFair ==
    \/ \E p \in Tasks, i \in FairIps : Call(p, i)
    \/ \E p \in Tasks : HealthCheck(p)
    \/ \E p \in Tasks : AcquireRead(p)
    \/ \E p \in Tasks : ReadCache(p)
    \/ \E p \in Tasks, x \in PrimaryExchanges : PrimaryResponds(p, x)
    \/ \E p \in Tasks, x \in FallbackExchanges : FallbackResponds(p, x)
    \/ \E p \in Tasks : AcquireWrite(p)
    \/ \E p \in Tasks : Insert(p)
    \/ \E p \in Tasks : HealthCheckReports(p)
    \/ \E p \in Tasks : AcquireReadStats(p)
    \/ \E p \in Tasks : CountEntries(p)
    \/ \E p \in Tasks : Cancel(p)
    \/ \E p \in Tasks : Return(p)
    \/ Tick

SpecFair == InitFair /\ [][NextFair]_vars /\ Fairness

---------------------------------------------------------------------------
(* The free functions: extract_client_ip_from_headers (geolocation.rs),    *)
(* CountryService::validate_and_normalize_country_code (country_utils.rs), *)
(* get_country_code_from_phone_number (src/utils.rs), and the conversion   *)
(* convert_maxmind_response applied to responses of every shape.           *)
(* A header map is a function from the names of the headers present to     *)
(* their (first) values; values and country codes are sequences of         *)
(* characters.                                                             *)

service == <<config, cache, now, writer, readers, pc, ip, location, result,
             primary, fallback, started, callers, seq, op, trace>>

XForwardedFor == "X-Forwarded-For"
XRealIp == "X-Real-IP"
CfConnectingIp == "CF-Connecting-IP"
XClientIp == "X-Client-IP"

HeaderNames == {XForwardedFor, XRealIp, CfConnectingIp, XClientIp}

Unknown == <<"u", "n", "k", "n", "o", "w", "n">>

HeaderValues ==
    {<<>>, <<" ">>, <<"1">>, Unknown, <<" ">> \o Unknown,
     <<" ", "1", " ", ",", "2">>, <<",", "2">>, Unknown \o <<",", "2">>}

HeaderMaps == UNION {[names -> HeaderValues] : names \in SUBSET HeaderNames}

\* forwarded_for.split(',').next(): the text before the first comma
RECURSIVE SplitFirst(_)
SplitFirst(s) ==
    IF s = <<>> \/ Head(s) = "," THEN <<>>
    ELSE <<Head(s)>> \o SplitFirst(Tail(s))

\* !trimmed_ip.is_empty() && trimmed_ip != "unknown"
Accepted(trimmed_ip) == trimmed_ip # <<>> /\ trimmed_ip # Unknown

\* an extraction that takes the whole X-Forwarded-For value for the client
extract_client_ip_unsplit(headers) ==
    IF XForwardedFor \in DOMAIN headers /\ Accepted(Trim(headers[XForwardedFor]))
    THEN Some(Trim(headers[XForwardedFor]))
    ELSE IF XRealIp \in DOMAIN headers /\ Accepted(Trim(headers[XRealIp]))
    THEN Some(Trim(headers[XRealIp]))
    ELSE IF CfConnectingIp \in DOMAIN headers /\ Accepted(Trim(headers[CfConnectingIp]))
    THEN Some(Trim(headers[CfConnectingIp]))
    ELSE IF XClientIp \in DOMAIN headers /\ Accepted(Trim(headers[XClientIp]))
    THEN Some(Trim(headers[XClientIp]))
    ELSE None

extract_client_ip_from_headers(headers) ==
    IF XForwardedFor \in DOMAIN headers
       /\ Accepted(Trim(SplitFirst(headers[XForwardedFor])))
    THEN Some(Trim(SplitFirst(headers[XForwardedFor])))
    ELSE IF XRealIp \in DOMAIN headers /\ Accepted(Trim(headers[XRealIp]))
    THEN Some(Trim(headers[XRealIp]))
    ELSE IF CfConnectingIp \in DOMAIN headers /\ Accepted(Trim(headers[CfConnectingIp]))
    THEN Some(Trim(headers[CfConnectingIp]))
    ELSE IF XClientIp \in DOMAIN headers /\ Accepted(Trim(headers[XClientIp]))
    THEN Some(Trim(headers[XClientIp]))
    ELSE None

(* country codes: a few characters with their UTF-8 length and upper case;  *)
(* "sharp_s", "e_acute" and "E_acute" stand for the characters U+00DF,     *)
(* U+00E9 and U+00C9, which take two bytes each                            *)
MaxCodeLen == 3

AsciiUppercase == {"U", "S"}
CodeChars == {"u", "s", "U", "S", "1", "sharp_s", "e_acute", "E_acute"}

\* char::len_utf8
len_utf8(ch) == IF ch \in {"sharp_s", "e_acute", "E_acute"} THEN 2 ELSE 1

\* str::len: the length in bytes
RECURSIVE ByteLen(_)
ByteLen(s) == IF s = <<>> THEN 0 ELSE len_utf8(Head(s)) + ByteLen(Tail(s))

\* char::to_uppercase, which may yield more than one character
UpperOfChar(ch) ==
    CASE ch = "u" -> <<"U">>
      [] ch = "s" -> <<"S">>
      [] ch = "e_acute" -> <<"E_acute">>
      [] ch = "sharp_s" -> <<"S", "S">>
      [] OTHER -> <<ch>>

\* str::to_uppercase
RECURSIVE to_uppercase(_)
to_uppercase(s) ==
    IF s = <<>> THEN <<>> ELSE UpperOfChar(Head(s)) \o to_uppercase(Tail(s))

\* a validation that forgets the length
is_valid_country_code_any_length(country_code) ==
    \A n \in DOMAIN country_code : country_code[n] \in AsciiUppercase

is_valid_country_code(country_code) ==
    IF ByteLen(country_code) # 2 THEN FALSE
    ELSE \A n \in DOMAIN country_code : country_code[n] \in AsciiUppercase

InvalidCountryCode(country_code) ==
    [message |-> "Invalid country code format", input |-> country_code]

validate_and_normalize_country_code(country_code) ==
    LET normalized == to_uppercase(country_code)
    IN  IF is_valid_country_code(normalized) THEN Ok(normalized)
        ELSE Err(InvalidCountryCode(country_code))

RECURSIVE SeqsUpTo(_, _)
SeqsUpTo(S, n) ==
    IF n = 0 THEN {<<>>}
    ELSE LET shorter == SeqsUpTo(S, n - 1)
         IN  shorter \cup {Append(t, x) : t \in shorter, x \in S}

CountryCodeInputs == SeqsUpTo(CodeChars, MaxCodeLen)

ExtractionOf(headers) ==
    [NoUtil EXCEPT !.fn = "extract_client_ip_from_headers", !.headers = headers]

ValidationOf(country_code) ==
    [NoUtil EXCEPT !.fn = "validate_and_normalize_country_code",
                   !.country_code = country_code]

(* MaxMind responses as serde hands them to convert_maxmind_response: the  *)
(* English name present or not, city, subdivisions and location present or *)
(* not, a first subdivision without an English name before one with it     *)
MmCountries ==
    {[iso_code |-> "DE", names |-> [en |-> "Germany", de |-> "Deutschland"]],
     [iso_code |-> "DE", names |-> [de |-> "Deutschland"]]}

MmCities ==
    {None, Some([names |-> [en |-> "Munich", de |-> "Muenchen"]]),
     Some([names |-> [de |-> "Muenchen"]])}

MmSubdivisions ==
    {None, Some(<<>>), Some(<<[names |-> [en |-> "Bavaria", de |-> "Bayern"]]>>),
     Some(<<[names |-> [de |-> "Bayern"]], [names |-> [en |-> "Bavaria"]]>>)}

MmLocations ==
    {None,
     Some([latitude |-> Some("48.14"), longitude |-> Some("11.58"),
           time_zone |-> Some("Europe/Berlin")]),
     Some([latitude |-> None, longitude |-> Some("11.58"), time_zone |-> None])}

MaxMindResponses ==
    [country : MmCountries, city : MmCities, location : MmLocations,
     subdivisions : MmSubdivisions]

(* phone numbers: '+', digits and one two-byte character                   *)
MaxPhoneLen == 4

PhoneChars == {"+", "4", "9", "6", "e_acute"}

PhoneNumbers == SeqsUpTo(PhoneChars, MaxPhoneLen)

\* crate::constants::{UK, KSA}
UK == "UK"
KSA == "KSA"

\* the table of get_country_code_from_phone_number
country_codes == (<<"4", "4">> :> UK) @@ (<<"9", "6", "6">> :> KSA)

\* str::trim_start_matches('+')
RECURSIVE trim_start_matches_plus(_)
trim_start_matches_plus(s) ==
    IF s # <<>> /\ Head(s) = "+" THEN trim_start_matches_plus(Tail(s)) ELSE s

\* the characters of s that end at byte n, if a character ends there
RECURSIVE CharsUpToByte(_, _)
CharsUpToByte(s, n) ==
    IF n = 0 THEN Some(<<>>)
    ELSE IF s = <<>> \/ len_utf8(Head(s)) > n THEN None
    ELSE LET rest == CharsUpToByte(Tail(s), n - len_utf8(Head(s)))
         IN  IF IsSome(rest) THEN Some(<<Head(s)>> \o Unwrap(rest)) ELSE None

\* str::get(0..n): None when n is beyond the end or inside a character
StrGet(s, n) == CharsUpToByte(s, n)

\* the outcome of a call that panics
Panicked(message) == [kind |-> "panic", message |-> message]

\* &s[0..1]: panics when byte 1 is beyond the end or inside a character
SliceFirstByte(s) ==
    IF IsSome(CharsUpToByte(s, 1)) THEN Ok(Unwrap(CharsUpToByte(s, 1)))
    ELSE Panicked("byte index 1 is out of bounds or not a char boundary")

\* unwrap_or evaluates its argument, the slice, before it looks at the Option
get_country_code_from_phone_number(phone_number) ==
    LET clean_number == trim_start_matches_plus(phone_number)
        first == SliceFirstByte(clean_number)
        two == StrGet(clean_number, 2)
    IN  IF first.kind = "panic" THEN first
        ELSE LET country_code == IF IsSome(two) THEN Unwrap(two) ELSE first.value
             IN  IF country_code \in DOMAIN country_codes
                 THEN Ok(country_codes[country_code])
                 ELSE Ok("Unknown")

ConversionOf(response) ==
    [NoUtil EXCEPT !.fn = "convert_maxmind_response", !.response = Some(response)]

PhoneLookupOf(phone_number) ==
    [NoUtil EXCEPT !.fn = "get_country_code_from_phone_number",
                   !.phone_number = phone_number]

\* a request whose headers, or a country code, arrives; the service is idle
InitUtil ==
    /\ config = [api_key |-> "", cache_ttl_seconds |-> 0, max_cache_entries |-> 0]
    /\ callers = {}
    /\ Fresh
    /\ \/ \E h \in HeaderMaps : util = ExtractionOf(h)
       \/ \E c \in CountryCodeInputs : util = ValidationOf(c)
       \/ \E r \in MaxMindResponses : util = ConversionOf(r)
       \/ \E n \in PhoneNumbers : util = PhoneLookupOf(n)

ExtractClientIp ==
    /\ util.fn = "extract_client_ip_from_headers"
    /\ util.out = None
    /\ util' = [util EXCEPT !.out = Some(extract_client_ip_from_headers(util.headers))]
    /\ UNCHANGED service

ValidateCountryCode ==
    /\ util.fn = "validate_and_normalize_country_code"
    /\ util.out = None
    /\ util' = [util EXCEPT !.out = Some(validate_and_normalize_country_code(util.country_code))]
    /\ UNCHANGED service

\* the caller passes a normalized code on to a second validation
ValidateAgain ==
    /\ util.fn = "validate_and_normalize_country_code"
    /\ util.out # None
    /\ Unwrap(util.out).kind = "Ok"
    /\ util' = ValidationOf(Unwrap(util.out).value)
    /\ UNCHANGED service

ConvertMaxMindResponse ==
    /\ util.fn = "convert_maxmind_response"
    /\ util.out = None
    /\ util' = [util EXCEPT !.out = Some(convert_maxmind_response(Unwrap(util.response)))]
    /\ UNCHANGED service

GetCountryCodeFromPhoneNumber ==
    /\ util.fn = "get_country_code_from_phone_number"
    /\ util.out = None
    /\ util' = [util EXCEPT !.out = Some(get_country_code_from_phone_number(util.phone_number))]
    /\ UNCHANGED service

NextUtil ==
    \/ ExtractClientIp
    \/ ValidateCountryCode
    \/ ValidateAgain
    \/ ConvertMaxMindResponse
    \/ GetCountryCodeFromPhoneNumber

SpecUtil == InitUtil /\ [][NextUtil]_vars


\* empty or whitespace only
IsBlank(s) == \A i \in DOMAIN s : s[i] \in WhiteSpace

ValidationError == Err(BadRequest("IP address is required"))

FallbackErrorMessages ==
    {"Fallback geolocation API request failed",
     "Failed to parse fallback geolocation response"}

\* the records a full "success" answer of the fallback stands for
FallbackRecords ==
    {LocationInfo(b.countryCode, b.country, Some(b.city), Some(b.regionName),
                  Some(b.lat), Some(b.lon), Some(b.timezone)) :
        b \in {FbSuccess, FbSuccessNoCode}}

\* the fallback was reached and answered without resolving the address
Degraded(p) == fallback[p] \in {"http_error", "fail_full", "fail_partial"}

\* the fallback was reached and failed hard: transport, or a body serde rejects
FallbackHardFailure(p) ==
    fallback[p] \in {"transport", "garbage", "fail_partial", "success_partial"}

Unconfigured == config.api_key \in {"", "demo_key", "your_maxmind_api_key"}

\* the entry of key k is stored and younger than the ttl now
FreshAt(k) ==
    k \in DOMAIN cache /\ now < cache[k].timestamp + config.cache_ttl_seconds

Size == Cardinality(DOMAIN cache)

Looks(p) == pc[p] = "reading" /\ pc'[p] # "reading"
CleansUp(p) == pc[p] = "cache_write" /\ pc'[p] = "inserting"

\* task p is inside get_location (called directly or by health_check)
Resolving(p) == op[p] \in {"get_location", "health_check"}

\* the current call of p looked the cache up and missed / began its put
Missed(p) == \E n \in DOMAIN trace[p] : trace[p][n] = "miss"
Wrote(p) == \E n \in DOMAIN trace[p] : trace[p][n] = "write"

\* how often step e occurs in a trace, and whether every a precedes every b
Count(tr, e) == Cardinality({n \in DOMAIN tr : tr[n] = e})
Before(tr, a, b) == \A i, j \in DOMAIN tr : (tr[i] = a /\ tr[j] = b) => i < j

\* the headers in the order of their priority, and what each contributes:
\* X-Forwarded-For its first comma-separated value, the others their value
Priority == <<XForwardedFor, XRealIp, CfConnectingIp, XClientIp>>

FirstValue(s) ==
    LET n == CHOOSE m \in 0..Len(s) :
                 /\ \A i \in 1..m : s[i] # ","
                 /\ m = Len(s) \/ s[m + 1] = ","
    IN  SubSeq(s, 1, n)

Contribution(h, name) == IF name = XForwardedFor THEN FirstValue(h[name]) ELSE h[name]

Absent(h, name) ==
    \/ name \notin DOMAIN h
    \/ IsBlank(Contribution(h, name))
    \/ Trim(Contribution(h, name)) = Unknown

\* exactly two uppercase ASCII letters
TwoUppercaseLetters(s) == Len(s) = 2 /\ \A n \in DOMAIN s : s[n] \in AsciiUppercase

\* get_location has produced its result for task p
Returned(p) == pc[p] = "done" /\ Resolving(p)
---------------------------------------------------------------------------
C2_BlankIpRejectedFirst ==
    [][\A p \in Tasks :
          /\ (Resolving(p) /\ pc[p] \notin {"idle", "done"}) => ~IsBlank(ip[p])
          /\ (pc[p] = "idle" /\ Resolving(p)' /\ IsBlank(ip'[p])) =>
                /\ pc'[p] = "done"
                /\ result'[p] = ValidationError
                /\ primary'[p] = "none" /\ fallback'[p] = "none"
                /\ UNCHANGED <<cache, writer, readers>>]_vars

C2_Witness ==
    \E p \in Tasks :
        pc[p] = "done" /\ ip[p] = IpBlank /\ result[p] = ValidationError

(* C3 (as stated): every record returned and every record stored has a     *)
(* non-empty country_code.                                                 *)
C3_CountryCodeNonEmpty ==
    /\ \A p \in Tasks :
          (Returned(p) /\ result[p].kind = "Ok") =>
              result[p].value.country_code # ""
    /\ \A k \in DOMAIN cache : cache[k].location.country_code # ""

(* C4: on a miss with a configured primary, a failed primary lookup         *)
(* (transport error, timeout, 401, 429, another non-success status, an     *)
(* unparseable body) is followed by the call of the fallback, and the call *)
(* returns what the fallback yields: its record, the default record when   *)
(* it degrades, or the fallback's own error; never the primary's error.    *)
C4_FallbackAfterPrimaryFailure ==
    \A p \in Tasks :
        primary[p] = "failed" =>
            /\ fallback[p] # "none"
            /\ pc[p] \in {"fallback", "cache_write", "inserting", "done", "reported"}
            /\ pc[p] = "done" =>
                  /\ fallback[p] = "success" =>
                        (result[p].kind = "Ok" /\ result[p].value \in FallbackRecords)
                  /\ fallback[p] \in {"http_error", "fail_full"} =>
                        result[p] = Ok(default_location)
                  /\ result[p].kind = "Err" =>
                        result[p].error.message \in FallbackErrorMessages

C4_Witness ==
    \E p \in Tasks :
        /\ pc[p] = "done" /\ primary[p] = "failed" /\ fallback[p] = "success"
        /\ result[p].kind = "Ok" /\ result[p].value.country_code = "GB"

(* C5: with an empty or placeholder api key no call ever invokes the       *)
(* primary, and every lookup that misses the cache invokes the fallback.   *)
C5_PrimarySkippedWhenUnconfigured ==
    [][Unconfigured =>
          \A p \in Tasks :
              /\ primary'[p] = "none"
              /\ (Looks(p) /\ ~FreshAt(ip[p])) =>
                    (pc'[p] = "fallback" /\ fallback'[p] = "pending")]_vars

C5_Witness ==
    \E p \in Tasks :
        /\ config.api_key = "your_maxmind_api_key"
        /\ pc[p] = "done" /\ primary[p] = "none" /\ fallback[p] = "success"

(* C6 (as stated): when the fallback is reached and answers a non-success  *)
(* HTTP status, or a success status with a status field other than         *)
(* "success", get_location returns the default record and no error.        *)
C6_DegradedGivesDefault ==
    \A p \in Tasks :
        (pc[p] = "done" /\ Degraded(p)) => result[p] = Ok(default_location)

(* C7 (as stated): two back-to-back calls for one ip, the second looking   *)
(* the cache up within the ttl of the entry the first produced, issue at   *)
(* most one provider request in total.                                     *)
C7_AtMostOneProviderCall ==
    (seq.stage = "second" /\ pc[seq.owner] = "done" /\ seq.within) =>
        seq.calls + Calls(seq.owner) <= 1

(* C7 (amended): of two back-to-back calls for one ip, the second looking  *)
(* the cache up within the ttl of the entry the first produced, the second *)
(* is a cache hit and issues no provider request; the first issues at most *)
(* one request to each provider, so at most two in total.                  *)
C7_SecondCallIsHit ==
    (seq.stage = "second" /\ pc[seq.owner] = "done" /\ seq.within) =>
        /\ Calls(seq.owner) = 0
        /\ result[seq.owner].kind = "Ok"
        /\ seq.calls <= 2

C7_Witness ==
    /\ seq.stage = "second" /\ pc[seq.owner] = "done" /\ seq.within
    /\ seq.calls = 2 /\ Calls(seq.owner) = 0

(* C8: a lookup at time t of an entry inserted at time T (still stored) is *)
(* a hit exactly when t < T + ttl, and a hit returns the stored record; an *)
(* entry whose age is >= ttl is a miss although it is still stored.        *)
C8_HitExactlyWithinTtl ==
    [][\A p \in Tasks :
          Looks(p) =>
              /\ (pc'[p] = "done") <=> FreshAt(ip[p])
              /\ FreshAt(ip[p]) => result'[p] = Ok(cache[ip[p]].location)
              /\ cache' = cache]_vars

C8_Witness ==
    \E p \in Tasks :
        /\ pc[p] \in {"primary", "fallback"}
        /\ ip[p] \in DOMAIN cache
        /\ now >= cache[ip[p]].timestamp + config.cache_ttl_seconds
        /\ config.cache_ttl_seconds > 0

(* C9 (as stated): whenever no put is in progress the number of stored     *)
(* entries is at most max_cache_entries, for every configured value.       *)
C9_SizeWithinCapacity ==
    writer = NoTask => Size <= config.max_cache_entries

(* C10 (as stated): a put that still finds size >= max_cache_entries after *)
(* the sweep of expired entries removes exactly size - max_cache_entries   *)
(* + 1 of the remaining entries, none of them younger than a survivor.     *)
C10_EvictsOldest ==
    [][\A p \in Tasks :
          CleansUp(p) =>
              LET swept == {k \in DOMAIN cache : FreshAt(k)}
                  removed == swept \ DOMAIN cache'
              IN  (Size >= config.max_cache_entries
                   /\ Cardinality(swept) >= config.max_cache_entries) =>
                      /\ Cardinality(removed) =
                            Cardinality(swept) - config.max_cache_entries + 1
                      /\ \A r \in removed, k \in DOMAIN cache' :
                            cache[r].timestamp <= cache[k].timestamp]_vars

(* C11: a task that holds the write guard (between the clean-up and the   *)
(* insert of cache_location) excludes every other writer and every reader  *)
(* (get_from_cache, get_cache_stats), so no lookup and no stats is taken   *)
(* from a cache whose clean-up is applied and whose insert is not; readers *)
(* may hold the lock together.                                             *)
C11_WriterExcludesAll ==
    \A p \in Tasks :
        pc[p] = "inserting" =>
            \A q \in Tasks \ {p} : pc[q] \notin {"inserting", "reading", "counting"}

C11_Witness ==
    /\ pc["t1"] = "inserting" /\ writer = "t1"
    /\ pc["t2"] = "cache_read" /\ ip["t2"] = ip["t1"]

(* C12: two calls for one ip that both miss each issue their own provider  *)
(* request and each write (no coalescing); every insert replaces the entry *)
(* of its key by its own record and time and touches no other key, so the  *)
(* later write of two overwrites the earlier one (last write wins).        *)
C12_EachWritesLastWins ==
    /\ [](\A p \in Tasks :
            (Resolving(p) /\ Missed(p)) =>
                /\ Calls(p) >= 1
                /\ (pc[p] = "done" /\ result[p].kind = "Ok") => Wrote(p))
    /\ [][\A p \in Tasks :
            (pc[p] = "inserting" /\ pc'[p] = "done") =>
                /\ DOMAIN cache' = DOMAIN cache \cup {ip[p]}
                /\ cache'[ip[p]] = CacheEntry(Unwrap(location[p]), now)
                /\ \A k \in DOMAIN cache \ {ip[p]} : cache'[k] = cache[k]]_vars

C12_Witness ==
    /\ ip["t1"] = ip["t2"] /\ ip["t1"] \in ValidIps
    /\ \A p \in Tasks : pc[p] = "done" /\ Missed(p) /\ Wrote(p)
    /\ now = 0 /\ config.cache_ttl_seconds > 0
    /\ location["t1"] # location["t2"]
    /\ \E p \in Tasks : cache[ip[p]] = CacheEntry(Unwrap(location[p]), 0)

(* C13: a call dropped by its caller is dropped at an .await (waiting for  *)
(* a lock or inside a provider request), never while it holds a guard; the *)
(* drop leaves the cache and the lock as they are, a write that has begun  *)
(* always runs to its insert, and an idle task holds no guard.             *)
C13_CancellationIsClean ==
    /\ [](\A p \in Tasks : pc[p] = "idle" => (writer # p /\ p \notin readers))
    /\ [][\A p \in Tasks :
            /\ (pc[p] \notin {"idle", "done", "reported"} /\ pc'[p] = "idle") =>
                  /\ pc[p] \notin {"reading", "inserting", "counting"}
                  /\ UNCHANGED <<cache, writer, readers>>
            /\ pc[p] = "inserting" => pc'[p] \in {"inserting", "done"}]_vars

C13_Witness ==
    /\ seq.stage = "cancelled" /\ started = 2
    /\ \A p \in Tasks : pc[p] = "idle"
    /\ cache # EmptyCache

(* C14: health_check resolves 8.8.8.8 and reports an error exactly when    *)
(* that lookup ended with the error of a hard failure of the fallback      *)
(* request (the same error); whenever the lookup yields a record, the      *)
(* degraded default record included, it reports Ok(()).                    *)
C14_HealthErrorOnlyOnHardFailure ==
    \A p \in Tasks :
        pc[p] = "reported" =>
            /\ op[p] = "health_check" /\ ip[p] = IpGoogle
            /\ result[p].kind = "Err" <=> FallbackHardFailure(p)
            /\ result[p].kind = "Err" =>
                  /\ result[p].error.variant = "InternalServerError"
                  /\ result[p].error.message \in FallbackErrorMessages
            /\ ~FallbackHardFailure(p) => result[p] = Ok(Unit)

C14_Witness ==
    \E p \in Tasks :
        /\ pc[p] = "reported" /\ fallback[p] = "http_error"
        /\ result[p] = Ok(Unit)
        /\ cache[IpGoogle].location = default_location

(* C15: one call of get_location looks the cache up at most once and       *)
(* first, asks each provider at most once, the primary before the          *)
(* fallback, the fallback only when the primary was skipped (no key        *)
(* configured) or failed, and writes the cache at most once, after its     *)
(* provider requests have been answered and before it returns.             *)
C15_NoStepRetried ==
    \A p \in Tasks :
        Resolving(p) =>
            LET tr == trace[p]
            IN  /\ Count(tr, "hit") + Count(tr, "miss") <= 1
                /\ \A e \in {"primary", "fallback", "write"} : Count(tr, e) <= 1
                /\ tr # <<>> => tr[1] \in {"hit", "miss"}
                /\ Count(tr, "hit") = 1 => tr = <<"hit">>
                /\ Before(tr, "primary", "fallback")
                /\ Before(tr, "primary", "write")
                /\ Before(tr, "fallback", "write")
                /\ Count(tr, "fallback") = 1 =>
                      IF Count(tr, "primary") = 1 THEN primary[p] = "failed"
                      ELSE Unconfigured
                /\ Count(tr, "write") = 1 =>
                      /\ Count(tr, "primary") + Count(tr, "fallback") >= 1
                      /\ primary[p] # "pending" /\ fallback[p] # "pending"
                      /\ pc[p] \in {"inserting", "done", "reported"}
                /\ (pc[p] \in {"done", "reported"} /\ Missed(p)
                    /\ ~FallbackHardFailure(p)) => Count(tr, "write") = 1

C15_Witness ==
    \E p \in Tasks :
        pc[p] = "done" /\ trace[p] = <<"miss", "primary", "fallback", "write">>

(* C16: a 404 of the primary is a successful primary lookup: the fallback  *)
(* is not called, get_location returns the default record, and the default *)
(* record is what the call stores under its ip.                            *)
C16_NotFoundGivesDefault ==
    \A p \in Tasks :
        primary[p] = "not_found" =>
            /\ fallback[p] = "none"
            /\ pc[p] \in {"cache_write", "inserting", "done", "reported"}
            /\ location[p] = Some(default_location)
            /\ pc[p] = "done" =>
                  /\ result[p] = Ok(default_location)
                  /\ ip[p] \in DOMAIN cache
                  /\ cache[ip[p]].location = default_location

C16_Witness ==
    \E p \in Tasks :
        /\ pc[p] = "done" /\ primary[p] = "not_found" /\ fallback[p] = "none"
        /\ result[p] = Ok(default_location)
        /\ cache[ip[p]] = CacheEntry(default_location, now)

(* C17: the steps of get_from_cache and of get_cache_stats (taking the     *)
(* read guard, reading, dropping the guard) leave the map as it is: the    *)
(* same keys, records and insertion times, also when the entry looked up   *)
(* is expired.                                                             *)
C17_ReadsLeaveStoreUnchanged ==
    [][\A p \in Tasks :
          (\/ pc[p] = "cache_read" /\ pc'[p] = "reading"
           \/ pc[p] = "reading" /\ pc'[p] # "reading"
           \/ pc[p] = "idle" /\ pc'[p] = "counting"
           \/ pc[p] = "counting" /\ pc'[p] # "counting") =>
              /\ cache' = cache
              /\ writer' = writer]_vars

C17_Witness ==
    \E p \in Tasks :
        /\ pc[p] \in {"primary", "fallback"} /\ op[p] = "get_location"
        /\ trace[p][1] = "miss"
        /\ ip[p] \in DOMAIN cache /\ ~FreshAt(ip[p])
        /\ cache[ip[p]].timestamp = 0 /\ now = 1

(* C18: get_cache_stats returns (total_entries, valid_entries): the number *)
(* of stored entries and the number of those younger than the ttl at that  *)
(* moment, which are exactly the keys a lookup would hit at that moment,   *)
(* so valid_entries <= total_entries.                                      *)
C18_StatsCountStoredAndValid ==
    [][\A p \in Tasks :
          (pc[p] = "counting" /\ pc'[p] # "counting") =>
              LET hits == {k \in DOMAIN cache :
                              IsSome(get_from_cache(cache, k, now,
                                                    config.cache_ttl_seconds))}
              IN  /\ result'[p] = Ok(<<Size, Cardinality({k \in DOMAIN cache : FreshAt(k)})>>)
                  /\ hits = {k \in DOMAIN cache : FreshAt(k)}
                  /\ result'[p].value[2] = Cardinality(hits)
                  /\ result'[p].value[2] <= result'[p].value[1]]_vars

C18_Witness ==
    \E p \in Tasks :
        /\ pc[p] = "done" /\ op[p] = "get_cache_stats"
        /\ result[p] = Ok(<<1, 0>>)
        /\ Size = 1 /\ config.cache_ttl_seconds = 1

(* C19: extract_client_ip_from_headers returns the trimmed contribution   *)
(* of the first header, in the order X-Forwarded-For, X-Real-IP,           *)
(* CF-Connecting-IP, X-Client-IP, that is present and whose contribution   *)
(* is neither blank nor "unknown" (X-Forwarded-For contributes its first   *)
(* comma-separated value only), and None when there is no such header.     *)
C19_FirstUsableHeader ==
    (util.fn = "extract_client_ip_from_headers" /\ util.out # None) =>
        LET h == util.headers
            usable == {n \in DOMAIN Priority : ~Absent(h, Priority[n])}
        IN  IF usable = {} THEN Unwrap(util.out) = None
            ELSE LET first == CHOOSE n \in usable : \A m \in usable : n <= m
                 IN  Unwrap(util.out) = Some(Trim(Contribution(h, Priority[first])))

C19_Witness ==
    /\ util.fn = "extract_client_ip_from_headers"
    /\ DOMAIN util.headers = HeaderNames
    /\ util.headers[XForwardedFor] = Unknown \o <<",", "2">>
    /\ util.headers[XRealIp] = <<" ">>
    /\ util.headers[CfConnectingIp] = <<" ", "1", " ", ",", "2">>
    /\ util.out = Some(Some(<<"1", " ", ",", "2">>))

(* C20: validate_and_normalize_country_code(c) is Ok exactly when the      *)
(* upper-cased c is two uppercase ASCII letters, and then it is Ok of the  *)
(* upper-cased c, which is_valid_country_code accepts and which a second   *)
(* normalization returns unchanged; otherwise it is an error.              *)
C20_NormalizedCodeIsValid ==
    (util.fn = "validate_and_normalize_country_code" /\ util.out # None) =>
        LET c == util.country_code
            r == Unwrap(util.out)
        IN  /\ r.kind \in {"Ok", "Err"}
            /\ r.kind = "Ok" <=> TwoUppercaseLetters(to_uppercase(c))
            /\ r.kind = "Ok" =>
                  /\ r.value = to_uppercase(c)
                  /\ is_valid_country_code(r.value)
                  /\ validate_and_normalize_country_code(r.value) = Ok(r.value)

C20_Witness ==
    /\ util.fn = "validate_and_normalize_country_code"
    /\ util.country_code = <<"u", "s">>
    /\ util.out = Some(Ok(<<"U", "S">>))

\* the step in which task p ends its put: the insert and the drop of the write guard
Inserts(p) == pc[p] = "inserting" /\ pc'[p] = "done"

(* C21: a lookup that finds the entry of its ip younger than the ttl ends  *)
(* the call with the stored record: no provider is asked, and the cache,   *)
(* the entry's insertion time included, stays as it is until the call has  *)
(* returned; so a lookup at or after T + ttl of an entry inserted at T is  *)
(* a miss, whatever hits came before.                                      *)
C21_HitLeavesCacheAlone ==
    /\ [](\A p \in Tasks : (Resolving(p) /\ trace[p] = <<"hit">>) => Calls(p) = 0)
    /\ [][\A p \in Tasks :
            /\ (Looks(p) /\ Resolving(p) /\ FreshAt(ip[p])) =>
                  /\ pc'[p] = "done"
                  /\ result'[p] = Ok(cache[ip[p]].location)
                  /\ primary'[p] = "none" /\ fallback'[p] = "none"
                  /\ trace'[p] = <<"hit">>
                  /\ cache' = cache
            /\ (Resolving(p) /\ trace[p] = <<"hit">>) =>
                  /\ cache' = cache
                  /\ pc'[p] \in {"done", "reported", "idle"}
            /\ (Looks(p) /\ Resolving(p) /\ ip[p] \in DOMAIN cache
                  /\ now >= cache[ip[p]].timestamp + config.cache_ttl_seconds) =>
                  /\ pc'[p] \in {"primary", "fallback"}
                  /\ Missed(p)']_vars

C21_Witness ==
    \E p \in Tasks :
        /\ Returned(p) /\ trace[p] = <<"hit">>
        /\ result[p] = Ok(cache[ip[p]].location)
        /\ config.cache_ttl_seconds = 1
        /\ cache[ip[p]].timestamp = 0 /\ now = 1

(* C22: a put that finds fewer entries than max_cache_entries removes      *)
(* nothing, expired entries included, and changes the entry of its own key *)
(* only; nothing but a put changes the cache, and a put that finds the     *)
(* store full (size >= max_cache_entries) first drops every entry whose    *)
(* age is >= ttl and evicts among the remaining ones only if they still    *)
(* fill the store.                                                         *)
C22_SweepOnlyWhenFull ==
    [][/\ \A p \in Tasks :
            /\ CleansUp(p) =>
                  LET fresh == {k \in DOMAIN cache : FreshAt(k)}
                  IN  IF Size < config.max_cache_entries
                      THEN cache' = cache
                      ELSE /\ DOMAIN cache' \subseteq fresh
                           /\ \A k \in DOMAIN cache' : cache'[k] = cache[k]
                           /\ Cardinality(fresh) < config.max_cache_entries =>
                                 DOMAIN cache' = fresh
            /\ Inserts(p) =>
                  /\ DOMAIN cache' = DOMAIN cache \cup {ip[p]}
                  /\ \A k \in DOMAIN cache \ {ip[p]} : cache'[k] = cache[k]
       /\ cache' # cache => \E p \in Tasks : CleansUp(p) \/ Inserts(p)]_vars

C22_Witness ==
    \E p \in Tasks :
        /\ Returned(p) /\ Wrote(p)
        /\ config.cache_ttl_seconds = 1 /\ config.max_cache_entries = 2
        /\ Size = 2 /\ cache[ip[p]].timestamp = now
        /\ \E k \in DOMAIN cache : ~FreshAt(k)

(* C24: a call of get_location that returns an error (the validation       *)
(* error, or a hard failure of the fallback) has taken no step that        *)
(* changes the cache: the cache changes only in the clean-up and the       *)
(* insert of a put, a call that began a put returns a record, and so the   *)
(* cache after an error is the cache before the call.                      *)
C24_ErrorLeavesCacheAlone ==
    /\ [](\A p \in Tasks :
            /\ (Resolving(p) /\ pc[p] \in {"done", "reported"} /\ result[p].kind = "Err") =>
                  ~Wrote(p)
            /\ (Resolving(p) /\ Wrote(p)) => pc[p] \in {"inserting", "done", "reported"})
    /\ [][\A p \in Tasks :
            (Resolving(p) /\ ~Wrote(p)' /\ pc[p] # "idle" /\ pc'[p] # pc[p]) =>
                cache' = cache]_vars

C24_Witness ==
    \E p \in Tasks :
        /\ Returned(p) /\ result[p].kind = "Err" /\ FallbackHardFailure(p)
        /\ ip[p] \in DOMAIN cache
        /\ cache[ip[p]].timestamp = 0 /\ now = 1

(* C27: the default record a degraded call yields is stored like any       *)
(* record, and the next call for that ip, looking the cache up before the  *)
(* entry's ttl has elapsed, returns the stored record (the default) and    *)
(* asks no provider.                                                       *)
C27_DefaultServedFromCache ==
    /\ [](\A p \in Tasks :
            (seq.stage = "second" /\ seq.owner = p /\ seq.within /\ pc[p] = "done") =>
                /\ ip[p] \in DOMAIN cache
                /\ result[p] = Ok(cache[ip[p]].location)
                /\ Calls(p) = 0)
    /\ [][\A p \in Tasks :
            (Inserts(p) /\ fallback[p] \in {"http_error", "fail_full"}) =>
                /\ result'[p] = Ok(default_location)
                /\ cache'[ip[p]] = CacheEntry(default_location, now)]_vars

C27_Witness ==
    \E p \in Tasks :
        /\ seq.stage = "second" /\ seq.owner = p /\ seq.within /\ pc[p] = "done"
        /\ Unconfigured /\ op[p] = "get_location"
        /\ result[p] = Ok(default_location) /\ Calls(p) = 0

(* C28: a health check that finds the entry of 8.8.8.8 younger than the    *)
(* ttl reports Ok(()) without asking a provider, whatever the providers    *)
(* would answer; a health check reports an error only after a lookup that  *)
(* found that entry missing or expired.                                    *)
C28_HealthServedFromCache ==
    /\ [](\A p \in Tasks :
            (op[p] = "health_check" /\ pc[p] = "reported") =>
                /\ trace[p] = <<"hit">> => (result[p] = Ok(Unit) /\ Calls(p) = 0)
                /\ result[p].kind = "Err" => Missed(p))
    /\ [][\A p \in Tasks :
            (op[p] = "health_check" /\ Looks(p)) =>
                IF FreshAt(IpGoogle)
                THEN /\ trace'[p] = <<"hit">>
                     /\ result'[p].kind = "Ok"
                     /\ primary'[p] = "none" /\ fallback'[p] = "none"
                ELSE Missed(p)']_vars

C28_Witness ==
    \E p \in Tasks :
        /\ op[p] = "health_check" /\ pc[p] = "reported"
        /\ trace[p] = <<"hit">> /\ result[p] = Ok(Unit)
        /\ FreshAt(IpGoogle)

C25_NoLockAcrossProviderCall ==
    \A p \in Tasks :
        pc[p] \in {"primary", "fallback"} =>
            /\ p \notin readers /\ writer # p
            /\ \A q \in Tasks \ {p} :
                  /\ pc[q] = "cache_read" => ENABLED AcquireRead(q)
                  /\ pc[q] = "cache_write" => ENABLED AcquireWrite(q)

C25_Witness ==
    \E p, q \in Tasks :
        /\ p # q /\ ip[p] = ip[q]
        /\ pc[p] \in {"primary", "fallback"} /\ Missed(p)
        /\ pc[q] = "done" /\ Missed(q) /\ Wrote(q)
        /\ now = 0 /\ FreshAt(ip[q])

\* the call of task p has produced its result, or its caller has dropped it
Completed(p) ==
    \/ pc[p] = "idle"
    \/ pc[p] = "done" /\ op[p] # "health_check"
    \/ pc[p] = "reported"

(* C26: under fair scheduling, with every provider request answered or     *)
(* timed out, every call of get_location, health_check and get_cache_stats *)
(* that has begun produces its result (unless its caller drops it); a task *)
(* that waits for a guard, or is about to ask for one, holds none, and a   *)
(* task holds at most one guard.                                           *)
C26_EveryCallCompletes ==
    /\ [](\A p \in Tasks :
            /\ pc[p] \in {"idle", "cache_read", "cache_write"} =>
                  (p \notin readers /\ writer # p)
            /\ ~(p \in readers /\ writer = p))
    /\ \A p \in Tasks : (pc[p] # "idle") ~> Completed(p)

C26_Witness ==
    \E p, q \in Tasks :
        /\ p # q
        /\ pc[q] = "inserting" /\ writer = q
        /\ pc[p] = "cache_write"
        /\ op[p] = "health_check" /\ op[q] = "get_location"

\* some localized name of a map of names, if it has any
LocalizedNames(names) == {names[k] : k \in DOMAIN names}

(* C29 (as stated): country_name is the English name of the country if     *)
(* present and the ISO code otherwise; city and region are the first       *)
(* available localized name of the city and of the first subdivision, so   *)
(* present whenever the city, or a first subdivision, has a name at all;   *)
(* latitude, longitude and time zone are passed through.                   *)
C29_FirstAvailableLocalizedName ==
    (util.fn = "convert_maxmind_response" /\ util.out # None) =>
        LET r == Unwrap(util.response)
            l == Unwrap(util.out)
        IN  /\ l.country_name = IF "en" \in DOMAIN r.country.names
                                THEN r.country.names["en"] ELSE r.country.iso_code
            /\ IF IsSome(r.city) /\ LocalizedNames(Unwrap(r.city).names) # {}
               THEN IsSome(l.city) /\ Unwrap(l.city) \in LocalizedNames(Unwrap(r.city).names)
               ELSE l.city = None
            /\ IF IsSome(r.subdivisions) /\ Unwrap(r.subdivisions) # <<>>
                  /\ LocalizedNames(Head(Unwrap(r.subdivisions)).names) # {}
               THEN /\ IsSome(l.region)
                    /\ Unwrap(l.region) \in LocalizedNames(Head(Unwrap(r.subdivisions)).names)
               ELSE l.region = None

(* C29 (amended): country_code is the ISO code; country_name is the        *)
(* English name of the country if present and the ISO code otherwise; city *)
(* is the English name of the city and region the English name of the      *)
(* first subdivision, each absent when that name is missing (other         *)
(* languages and later subdivisions are not consulted); latitude,          *)
(* longitude and time zone are those of the location, absent without one.  *)
C29_EnglishNamesOnly ==
    (util.fn = "convert_maxmind_response" /\ util.out # None) =>
        LET r == Unwrap(util.response)
            l == Unwrap(util.out)
            English(names) == IF "en" \in DOMAIN names THEN <<names["en"]>> ELSE <<>>
            subdivisions == IF r.subdivisions = <<>> THEN <<>> ELSE r.subdivisions[1]
        IN  /\ l.country_code = r.country.iso_code
            /\ "en" \in DOMAIN r.country.names => l.country_name = r.country.names["en"]
            /\ "en" \notin DOMAIN r.country.names => l.country_name = r.country.iso_code
            /\ l.city = IF r.city = <<>> THEN <<>> ELSE English(r.city[1].names)
            /\ l.region = IF subdivisions = <<>> THEN <<>>
                          ELSE English(subdivisions[1].names)
            /\ r.location = <<>> =>
                  (l.latitude = <<>> /\ l.longitude = <<>> /\ l.timezone = <<>>)
            /\ r.location # <<>> =>
                  /\ l.latitude = r.location[1].latitude
                  /\ l.longitude = r.location[1].longitude
                  /\ l.timezone = r.location[1].time_zone

C29_Witness ==
    /\ util.fn = "convert_maxmind_response" /\ util.out # None
    /\ Unwrap(util.response).city = Some([names |-> [de |-> "Muenchen"]])
    /\ Len(Unwrap(Unwrap(util.response).subdivisions)) = 2
    /\ Unwrap(util.out).city = None /\ Unwrap(util.out).region = None
    /\ Unwrap(util.out).country_name = "DE"

\* the number without its leading '+' signs begins with the characters of prefix
BeginsWith(number, prefix) ==
    LET digits == trim_start_matches_plus(number)
    IN  Len(digits) >= Len(prefix) /\ SubSeq(digits, 1, Len(prefix)) = prefix

(* C30 (as stated): get_country_code_from_phone_number returns UK for a    *)
(* number whose digits after the leading '+' begin with 44, KSA for one    *)
(* whose digits begin with 966 and "Unknown" for every other number, and   *)
(* it returns (does not panic) for every input, "" and "+" included.       *)
C30_PhonePrefixLookup ==
    (util.fn = "get_country_code_from_phone_number" /\ util.out # None) =>
        Unwrap(util.out) =
            IF BeginsWith(util.phone_number, <<"4", "4">>) THEN Ok(UK)
            ELSE IF BeginsWith(util.phone_number, <<"9", "6", "6">>) THEN Ok(KSA)
            ELSE Ok("Unknown")

====
